---- MODULE Spec2Model ----
(***************************************************************************)
(* A model of memebot: the message-interpretation pipeline                 *)
(* (SlackPrefixMentionParser, RegexpKeywordParser, MessageParser,          *)
(* handleMessage, replyTo) and the load-once file repository               *)
(* (FileServingMemepository, MemeIndex, MemepositorySearcher).             *)
(*                                                                         *)
(* Strings are sequences of one-character strings, so that prefix tests,   *)
(* slicing, trimming, case folding and regular-expression matching are     *)
(* computed character by character as the Go code computes them.           *)
(***************************************************************************)
EXTENDS Integers, Sequences, FiniteSets, TLC

\* ------------------------------------------------------------------ bounds
\* Number of chunks that follow the optional mention in a message text (SpecMsg).
MaxChunks == 3
\* Number of goroutines that call into the repository or handle a message (Spec).
NumCallers == 2
\* Number of Add calls on an index filled by hand (SpecIndex).
MaxAdds == 3
\* Number of entries of a scanned directory (SpecLoad).
MaxFiles == 2
\* Number of HTTP requests served one after the other (SpecServe).
MaxRequests == 3

\* ------------------------------------------------------------- characters
Upper == <<"A","B","C","D","E","F","G","H","I","J","K","L","M",
           "N","O","P","Q","R","S","T","U","V","W","X","Y","Z">>
Lower == <<"a","b","c","d","e","f","g","h","i","j","k","l","m",
           "n","o","p","q","r","s","t","u","v","w","x","y","z">>
Digits == {"0","1","2","3","4","5","6","7","8","9"}

\* unicode.ToLower on one character.
ToLowerChar(c) ==
  IF \E i \in 1..26 : Upper[i] = c
    THEN Lower[CHOOSE i \in 1..26 : Upper[i] = c]
    ELSE c

\* strings.ToLower
ToLower(s) == [i \in 1..Len(s) |-> ToLowerChar(s[i])]

\* unicode.IsSpace
IsSpace(c) == c \in {" ", "\t", "\n", "\r"}

\* The class \w of Go's regexp syntax: [0-9A-Za-z_].
IsWordChar(c) ==
  \/ \E i \in 1..26 : Upper[i] = c \/ Lower[i] = c
  \/ c \in Digits
  \/ c = "_"

\* strings.HasPrefix
HasPrefix(s, prefix) ==
  /\ Len(prefix) <= Len(s)
  /\ SubSeq(s, 1, Len(prefix)) = prefix

\* strings.TrimPrefix
TrimPrefix(s, prefix) ==
  IF HasPrefix(s, prefix) THEN SubSeq(s, Len(prefix) + 1, Len(s)) ELSE s

\* strings.IndexFunc(s, unicode.IsSpace): 0-based index of the first space, -1 if none.
IndexFuncIsSpace(s) ==
  IF \E i \in 1..Len(s) : IsSpace(s[i])
    THEN (CHOOSE i \in 1..Len(s) : IsSpace(s[i]) /\ \A j \in 1..(i-1) : ~IsSpace(s[j])) - 1
    ELSE -1

RECURSIVE TrimLeftSpace(_)
TrimLeftSpace(s) ==
  IF s # <<>> /\ IsSpace(Head(s)) THEN TrimLeftSpace(Tail(s)) ELSE s

RECURSIVE TrimRightSpace(_)
TrimRightSpace(s) ==
  IF s # <<>> /\ IsSpace(s[Len(s)]) THEN TrimRightSpace(SubSeq(s, 1, Len(s) - 1)) ELSE s

\* strings.TrimSpace
TrimSpace(s) == TrimRightSpace(TrimLeftSpace(s))

\* ---------------------------------------------------- regular expressions
\* Syntax trees of the patterns, and Go's leftmost-first (Perl) matching with
\* submatches.  A match result is [e |-> end offset, caps |-> group spans];
\* RxMatch returns the results in the order a backtracking matcher tries them.
RxLit(c) == [t |-> "lit", c |-> c]
RxWord == [t |-> "word"]
RxBol == [t |-> "bol"]
RxEol == [t |-> "eol"]
RxCat(a, b) == [t |-> "cat", a |-> a, b |-> b]
RxAlt(a, b) == [t |-> "alt", a |-> a, b |-> b]
RxOpt(a) == [t |-> "opt", a |-> a]
RxPlus(a) == [t |-> "plus", a |-> a]
RxGroup(n, a) == [t |-> "grp", n |-> n, a |-> a]

RECURSIVE RxCatAll(_)
RxCatAll(rs) == IF Len(rs) = 1 THEN rs[1] ELSE RxCat(Head(rs), RxCatAll(Tail(rs)))

RECURSIVE RxLits(_)
RxLits(s) == IF Len(s) = 1 THEN RxLit(s[1]) ELSE RxCat(RxLit(Head(s)), RxLits(Tail(s)))

\* regexp.Regexp.NumSubexp
RECURSIVE NumSubexp(_)
NumSubexp(re) ==
  CASE re.t \in {"lit", "word", "bol", "eol"} -> 0
    [] re.t \in {"cat", "alt"} -> NumSubexp(re.a) + NumSubexp(re.b)
    [] re.t \in {"opt", "plus"} -> NumSubexp(re.a)
    [] re.t = "grp" -> 1 + NumSubexp(re.a)

Unset == <<-1, -1>>

RECURSIVE RxMatch(_, _, _, _)
RECURSIVE RxThen(_, _, _)
RECURSIVE RxPlusRest(_, _, _, _)
RECURSIVE RxClose(_, _, _)

\* Continue every result of rs with re.
RxThen(rs, re, s) ==
  IF rs = <<>> THEN <<>>
  ELSE RxMatch(re, s, Head(rs).e, Head(rs).caps) \o RxThen(Tail(rs), re, s)

\* Greedy repetition: after one iteration, first try another, then stop.
RxPlusRest(rs, re, s, i) ==
  IF rs = <<>> THEN <<>>
  ELSE (IF Head(rs).e > i THEN RxMatch(re, s, Head(rs).e, Head(rs).caps) ELSE <<>>)
       \o <<Head(rs)>>
       \o RxPlusRest(Tail(rs), re, s, i)

\* Record the span of group n, opened at i, in every result.
RxClose(rs, n, i) ==
  IF rs = <<>> THEN <<>>
  ELSE <<[e |-> Head(rs).e, caps |-> [Head(rs).caps EXCEPT ![n] = <<i, Head(rs).e>>]]>>
       \o RxClose(Tail(rs), n, i)

\* The pattern is compiled with the flag (?i): literals fold case.
RxMatch(re, s, i, caps) ==
  CASE re.t = "lit" ->
         IF i < Len(s) /\ ToLowerChar(s[i + 1]) = ToLowerChar(re.c)
           THEN <<[e |-> i + 1, caps |-> caps]>> ELSE <<>>
    [] re.t = "word" ->
         IF i < Len(s) /\ IsWordChar(s[i + 1])
           THEN <<[e |-> i + 1, caps |-> caps]>> ELSE <<>>
    [] re.t = "bol" -> IF i = 0 THEN <<[e |-> i, caps |-> caps]>> ELSE <<>>
    [] re.t = "eol" -> IF i = Len(s) THEN <<[e |-> i, caps |-> caps]>> ELSE <<>>
    [] re.t = "cat" -> RxThen(RxMatch(re.a, s, i, caps), re.b, s)
    [] re.t = "alt" -> RxMatch(re.a, s, i, caps) \o RxMatch(re.b, s, i, caps)
    [] re.t = "opt" -> RxMatch(re.a, s, i, caps) \o <<[e |-> i, caps |-> caps]>>
    [] re.t = "plus" -> RxPlusRest(RxMatch(re.a, s, i, caps), re, s, i)
    [] re.t = "grp" -> RxClose(RxMatch(re.a, s, i, caps), re.n, i)

\* The text of a group span; an unset group gives the empty string.
SpanText(s, span) ==
  IF span = Unset THEN <<>> ELSE SubSeq(s, span[1] + 1, span[2])

RECURSIVE FindFrom(_, _, _)
FindFrom(re, s, start) ==
  IF start > Len(s) THEN <<>>
  ELSE LET rs == RxMatch(re, s, start, [n \in 1..NumSubexp(re) |-> Unset])
       IN IF rs # <<>>
            THEN <<SubSeq(s, start + 1, Head(rs).e)>>
                 \o [n \in 1..NumSubexp(re) |-> SpanText(s, Head(rs).caps[n])]
            ELSE FindFrom(re, s, start + 1)

\* regexp.Regexp.FindStringSubmatch: the leftmost match and its groups, or nil
\* (the empty slice) when there is none.
FindStringSubmatch(re, s) == FindFrom(re, s, 0)

\* ------------------------------------------------------ keyword patterns
\* The configured keyword patterns, by name:
\*   "word"     (\w+)
\*   "anchored" ^(\w+)$
\*   "alt"      (help)|(k)
\*   "optional" (:?)k
\*   "two"      (\w+):(k)
\* and patterns a parser cannot be built from:
\*   "plain"      help k
\*   "noncapture" (?:help)|k
\*   "unclosed"   (k
PatternIds == {"word", "anchored", "alt", "optional", "two"}

Pattern(p) ==
  CASE p = "word" -> RxGroup(1, RxPlus(RxWord))
    [] p = "anchored" -> RxCatAll(<<RxBol, RxGroup(1, RxPlus(RxWord)), RxEol>>)
    [] p = "alt" -> RxAlt(RxGroup(1, RxLits(<<"h","e","l","p">>)), RxGroup(2, RxLit("k")))
    [] p = "optional" -> RxCat(RxGroup(1, RxOpt(RxLit(":"))), RxLit("k"))
    [] p = "two" -> RxCatAll(<<RxGroup(1, RxPlus(RxWord)), RxLit(":"), RxGroup(2, RxLit("k"))>>)
    [] p = "plain" -> RxLits(<<"h","e","l","p"," ","k">>)
    [] p = "noncapture" -> RxAlt(RxLits(<<"h","e","l","p">>), RxLit("k"))

\* The nil pointer, the zero value, a result not yet there.
None == [none |-> TRUE]

\* Every pattern that NewRegexpKeywordParser may be given.
GivenPatternIds == PatternIds \cup {"plain", "noncapture", "unclosed"}

NoParser == [Regexp |-> None, exampleGenerator |-> None]

\* regexp.Compile("(?i)" + pattern)
Compile(p) ==
  IF p = "unclosed" THEN [re |-> "nil", err |-> "missing closing )"]
  ELSE [re |-> Pattern(p), err |-> "nil"]

\* regen.NewGenerator builds a generator from every pattern that compiles.
NewGenerator(p) == [generator |-> [pattern |-> p], err |-> "nil"]

\* A NewRegexpKeywordParser that does not count the capture groups.
NewRegexpKeywordParserAnyGroups(p) ==
  LET compiled == Compile(p)
      gen == NewGenerator(p)
  IN IF compiled.err # "nil" THEN [parser |-> NoParser, err |-> compiled.err]
     ELSE IF gen.err # "nil"
       THEN [parser |-> NoParser, err |-> "error creating sample phrase generator"]
     ELSE [parser |-> [Regexp |-> compiled.re, exampleGenerator |-> gen.generator],
           err |-> "nil"]

\* NewRegexpKeywordParser
NewRegexpKeywordParser(p) ==
  LET compiled == Compile(p)
      gen == NewGenerator(p)
  IN IF compiled.err # "nil" THEN [parser |-> NoParser, err |-> compiled.err]
     ELSE IF NumSubexp(compiled.re) < 1
       THEN [parser |-> NoParser,
             err |-> "keyword pattern must have at least 1 capturing group"]
     ELSE IF gen.err # "nil"
       THEN [parser |-> NoParser, err |-> "error creating sample phrase generator"]
     ELSE [parser |-> [Regexp |-> compiled.re, exampleGenerator |-> gen.generator],
           err |-> "nil"]

\* RegexpKeywordParser.GenerateSample: some phrase the pattern accepts.
GenerateSample(p) == <<"<sample of ", p, ">">>

\* ----------------------------------------------------------- the parsers
Help == <<"h","e","l","p">>

\* DefaultHelpParser
DefaultHelpParser(msg) == ToLower(msg) = Help

MentionToken(userId) == <<"<","@">> \o userId \o <<">">>

\* A ParseMention that forgets strings.TrimSpace.
StripMentionNoTrim(prefix, msg) ==
  LET cleanMsg == TrimPrefix(msg, prefix)
      i == IndexFuncIsSpace(cleanMsg)
  IN IF i < 0
       THEN [cleanMsg |-> cleanMsg, mentioned |-> TRUE]
       ELSE [cleanMsg |-> SubSeq(cleanMsg, i + 1, Len(cleanMsg)), mentioned |-> TRUE]

\* The body of the loop of ParseMention, for the prefix that matched.
StripMention(prefix, msg) ==
  LET cleanMsg == TrimPrefix(msg, prefix)
      i == IndexFuncIsSpace(cleanMsg)
  IN IF i < 0
       THEN [cleanMsg |-> cleanMsg, mentioned |-> TRUE]
       ELSE [cleanMsg |-> TrimSpace(SubSeq(cleanMsg, i + 1, Len(cleanMsg))),
             mentioned |-> TRUE]

\* A ParseMention that knows the display name only.
ParseMentionNameOnly(mentionedUserName, userId, msg) ==
  IF HasPrefix(msg, mentionedUserName) THEN StripMention(mentionedUserName, msg)
  ELSE [cleanMsg |-> msg, mentioned |-> FALSE]

\* A ParseMention that trims the text of a message without mention.
ParseMentionTrimmed(mentionedUserName, userId, msg) ==
  IF HasPrefix(msg, mentionedUserName) THEN StripMention(mentionedUserName, msg)
  ELSE IF HasPrefix(msg, MentionToken(userId)) THEN StripMention(MentionToken(userId), msg)
  ELSE [cleanMsg |-> TrimSpace(msg), mentioned |-> FALSE]

\* SlackPrefixMentionParser.ParseMention
ParseMention(mentionedUserName, userId, msg) ==
  IF HasPrefix(msg, mentionedUserName) THEN StripMention(mentionedUserName, msg)
  ELSE IF HasPrefix(msg, MentionToken(userId)) THEN StripMention(MentionToken(userId), msg)
  ELSE [cleanMsg |-> msg, mentioned |-> FALSE]

\* A ParseKeyword that always answers with the first capture group.
FirstGroup(matches) == [keyword |-> Head(matches), matched |-> TRUE]

\* The loop of ParseKeyword over the capture groups.
RECURSIVE FirstNonEmpty(_)
FirstNonEmpty(matches) ==
  IF matches = <<>> THEN [keyword |-> <<>>, matched |-> FALSE]
  ELSE IF Head(matches) # <<>> THEN [keyword |-> Head(matches), matched |-> TRUE]
  ELSE FirstNonEmpty(Tail(matches))

\* RegexpKeywordParser.ParseKeyword
ParseKeyword(p, msg) ==
  LET matches == FindStringSubmatch(Pattern(p), msg)
  IN IF Len(matches) < 2
       THEN [keyword |-> <<>>, matched |-> FALSE]
       ELSE FirstNonEmpty(Tail(matches))

\* A ParseMessage that recognises help without a mention.
ParseMessageHelpAnywhere(p, mentionedUser, userId, msg) ==
  LET m == ParseMention(mentionedUser, userId, msg)
      k == ParseKeyword(p, m.cleanMsg)
  IN IF DefaultHelpParser(m.cleanMsg)
       THEN [keyword |-> <<>>, mentioned |-> m.mentioned, help |-> TRUE]
     ELSE IF k.matched
       THEN [keyword |-> k.keyword, mentioned |-> m.mentioned, help |-> FALSE]
     ELSE [keyword |-> <<>>, mentioned |-> m.mentioned, help |-> FALSE]

\* MessageParser.ParseMessage
ParseMessage(p, mentionedUser, userId, msg) ==
  LET m == ParseMention(mentionedUser, userId, msg)
      k == ParseKeyword(p, m.cleanMsg)
  IN IF DefaultHelpParser(m.cleanMsg) /\ m.mentioned
       THEN [keyword |-> <<>>, mentioned |-> m.mentioned, help |-> TRUE]
     ELSE IF k.matched
       THEN [keyword |-> k.keyword, mentioned |-> m.mentioned, help |-> FALSE]
     ELSE [keyword |-> <<>>, mentioned |-> m.mentioned, help |-> FALSE]

\* ------------------------------------------------------------ the replies
NoReply == <<>>

\* DefaultErrorHandler; the quotation marks around the keyword are written << >>.
OnHelp(sample) == <<"Try ">> \o sample
OnNoMemeFound(keyword) ==
  <<"Sorry, I couldn't find a meme for <<">> \o keyword \o <<">>.">>
OnPhraseNotUnderstood(phrase, sample) ==
  <<"Sorry, I'm not sure what you mean by:\n> ">> \o phrase \o <<"\n">> \o OnHelp(sample)

\* Meme.URL().String(): a mock meme carries its URL, a file meme is served
\* by the object server under its id.
URLString(meme) ==
  IF "url" \in DOMAIN meme THEN meme.url ELSE <<"/">> \o meme.id

\* The outcomes of MemeSearcher.FindMeme.
NoMeme == [none |-> TRUE]
Found(meme) == [meme |-> meme, err |-> "nil"]
ErrNoMemeFound == [meme |-> NoMeme, err |-> "no meme found"]
Failed(err) == [meme |-> NoMeme, err |-> err]

\* A handleMessage that lets every message through.
IgnoredNever(parsed, ParseAllMessages) == FALSE

\* handleMessage: a message that does not mention the bot is ignored unless
\* all messages are parsed.
Ignored(parsed, ParseAllMessages) == ~parsed.mentioned /\ ~ParseAllMessages

\* A handleMessage that answers every phrase it does not understand.
OnEmptyKeywordAlways(parsed, p, text) == OnPhraseNotUnderstood(text, GenerateSample(p))

\* handleMessage: no keyword was extracted.
OnEmptyKeyword(parsed, p, text) ==
  IF parsed.mentioned
    THEN OnPhraseNotUnderstood(text, GenerateSample(p))
    ELSE NoReply

\* A handleMessage that reports every failed search.
OnSearchFailedAlways(parsed) == OnNoMemeFound(parsed.keyword)

\* handleMessage: FindMeme failed, with ErrNoMemeFound or another error.
OnSearchFailed(parsed) ==
  IF parsed.mentioned THEN OnNoMemeFound(parsed.keyword) ELSE NoReply

\* A handleMessage that posts a meme only when the bot is mentioned.
OnFoundMentionedOnly(parsed, meme) ==
  IF parsed.mentioned THEN URLString(meme) ELSE NoReply

\* handleMessage: FindMeme gave a meme.
OnFound(parsed, meme) == URLString(meme)

\* handleMessage(self, config, m), with `found` what FindMeme returns for the
\* keyword when it is called.
handleMessage(parsed, p, ParseAllMessages, text, found) ==
  IF Ignored(parsed, ParseAllMessages) THEN NoReply
  ELSE IF parsed.help THEN OnHelp(GenerateSample(p))
  ELSE IF parsed.keyword = <<>> THEN OnEmptyKeyword(parsed, p, text)
  ELSE IF found.err = ErrNoMemeFound.err THEN OnSearchFailed(parsed)
  ELSE IF found.err # "nil" THEN OnSearchFailed(parsed)
  ELSE OnFound(parsed, found.meme)

\* A handleMessage that searches for the keyword of a help request too.
CallsFindMemeOnHelp(parsed, ParseAllMessages) ==
  /\ ~Ignored(parsed, ParseAllMessages)
  /\ parsed.keyword # <<>> \/ parsed.help

\* Whether handleMessage reaches its call of config.Searcher.FindMeme.
CallsFindMeme(parsed, ParseAllMessages) ==
  /\ ~Ignored(parsed, ParseAllMessages)
  /\ ~parsed.help
  /\ parsed.keyword # <<>>

\* What handleMessage writes to config.Log: a failed search is logged, with
\* the keyword, only when the bot was mentioned.
Logged(parsed, ParseAllMessages, found) ==
  IF ~CallsFindMeme(parsed, ParseAllMessages) \/ found.err = "nil" \/ ~parsed.mentioned
    THEN <<>>
  ELSE IF found.err = ErrNoMemeFound.err
    THEN << [what |-> "no meme found for keyword:", about |-> parsed.keyword] >>
  ELSE << [what |-> "error searching for", about |-> parsed.keyword] >>

\* ------------------------------------------------------------ file names
\* filepath.Ext: the suffix beginning at the final dot, empty if there is none.
RECURSIVE Ext(_)
Ext(name) ==
  IF name = <<>> THEN <<>>
  ELSE IF \E i \in 2..Len(name) : name[i] = "." THEN Ext(Tail(name))
  ELSE IF Head(name) = "." THEN name
  ELSE <<>>

\* strings.TrimSuffix
TrimSuffix(s, suffix) ==
  IF Len(suffix) <= Len(s) /\ SubSeq(s, Len(s) - Len(suffix) + 1, Len(s)) = suffix
    THEN SubSeq(s, 1, Len(s) - Len(suffix))
    ELSE s

\* strings.Split(s, sep) for a one-character separator.
RECURSIVE Split(_, _)
Split(s, sep) ==
  IF \E i \in 1..Len(s) : s[i] = sep
    THEN LET i == CHOOSE i \in 1..Len(s) : s[i] = sep /\ \A j \in 1..(i-1) : s[j] # sep
         IN <<SubSeq(s, 1, i - 1)>> \o Split(SubSeq(s, i + 1, Len(s)), sep)
    ELSE <<s>>

getNormalizedExtensionWithoutDot(name) == ToLower(TrimPrefix(Ext(name), <<".">>))

parseKeywords(name) == Split(TrimSuffix(name, Ext(name)), ",")

\* ------------------------------------------------------------- MemeIndex
\* A normalizeKeyword that keeps the case.
normalizeKeywordAsGiven(kw) == kw

normalizeKeyword(kw) == ToLower(kw)

\* NewMemeIndex; ref identifies the allocated object.
NewMemeIndex(ref) == [ref |-> ref, byKeyword |-> <<>>, all |-> <<>>]

\* One iteration of the loop of MemeIndex.Add.
AddKeyword(byKeyword, keyword, meme) ==
  LET k == normalizeKeyword(keyword)
  IN [x \in DOMAIN byKeyword \cup {k} |->
        IF x = k
          THEN (IF k \in DOMAIN byKeyword THEN byKeyword[k] ELSE <<>>) \o <<meme>>
          ELSE byKeyword[x]]

RECURSIVE AddKeywords(_, _, _)
AddKeywords(byKeyword, keywords, meme) ==
  IF keywords = <<>> THEN byKeyword
  ELSE AddKeywords(AddKeyword(byKeyword, Head(keywords), meme), Tail(keywords), meme)

\* An Add that indexes a meme under its first keyword only.
AddFirstKeywordOnly(mi, meme) ==
  [mi EXCEPT !.all = Append(@, meme),
             !.byKeyword = AddKeywords(@, SubSeq(meme.keywords, 1, 1), meme)]

\* MemeIndex.Add
Add(mi, meme) ==
  [mi EXCEPT !.all = Append(@, meme),
             !.byKeyword = AddKeywords(@, meme.keywords, meme)]

\* The characters of the model in the order of their bytes.
ByteOrder ==
  <<" ", ",", ".">> \o <<"0","1","2","3","4","5","6","7","8","9">>
    \o <<":", "<", ">", "@">> \o Upper \o <<"_">> \o Lower
Byte(c) == CHOOSE i \in 1..Len(ByteOrder) : ByteOrder[i] = c

\* a < b on Go strings: the order of the bytes, a proper prefix first.
RECURSIVE StringLess(_, _)
StringLess(a, b) ==
  IF b = <<>> THEN FALSE
  ELSE IF a = <<>> THEN TRUE
  ELSE IF Head(a) # Head(b) THEN Byte(Head(a)) < Byte(Head(b))
  ELSE StringLess(Tail(a), Tail(b))

\* sort.Sort(sort.StringSlice(keywords)) on strings that all differ.
RECURSIVE SortStrings(_)
SortStrings(S) ==
  IF S = {} THEN <<>>
  ELSE LET least == CHOOSE x \in S : \A y \in S : x = y \/ StringLess(x, y)
       IN <<least>> \o SortStrings(S \ {least})

\* A Keywords() that answers the keywords from the greatest to the least.
KeywordsDescending(mi) ==
  IF DOMAIN mi.byKeyword = {} THEN <<>>
  ELSE LET ks == SortStrings(DOMAIN mi.byKeyword)
       IN [i \in 1..Len(ks) |-> ks[Len(ks) + 1 - i]]

\* MemeIndex.Keywords: the keys of byKeyword, sorted.
Keywords(mi) == SortStrings(DOMAIN mi.byKeyword)

\* MemeIndex.FindByKeyword
FindByKeyword(mi, keyword) ==
  IF normalizeKeyword(keyword) \in DOMAIN mi.byKeyword
    THEN mi.byKeyword[normalizeKeyword(keyword)]
    ELSE <<>>

\* ------------------------------------------------------- the file system
DotJpg == <<".","j","p","g">>

\* A directory entry: its name, whether it is a regular file, the bytes an
\* Open reads, whether Open or the read fails, and, for a directory, the
\* entries below it.
File(name, content) ==
  [name |-> name, regular |-> TRUE, content |-> content, openErr |-> FALSE, children |-> <<>>]
Unreadable(name) ==
  [name |-> name, regular |-> TRUE, content |-> "", openErr |-> TRUE, children |-> <<>>]
SubDir(name) ==
  [name |-> name, regular |-> FALSE, content |-> "", openErr |-> FALSE,
   children |-> << File(<<"h","e","l","p">> \o DotJpg, "bytes4") >>]

\* What ReadDirEntries may answer for the configured path.
Dirs ==
  { [err |-> "open images: no such file or directory", entries |-> <<>>],
    [err |-> "nil", entries |-> <<>>],
    [err |-> "nil", entries |-> << File(<<"k">> \o DotJpg, "bytes1"),
                                   File(<<"K",",","h","e","l","p",".","J","P","G">>, "bytes2") >>],
    [err |-> "nil", entries |-> << Unreadable(<<"k">> \o DotJpg),
                                   File(<<"k",".","t","x","t">>, "bytes1"),
                                   SubDir(<<"k">> \o DotJpg),
                                   File(<<"h","e","l","p">> \o DotJpg, "bytes1") >>] }

\* The entries the directories of SpecLoad are made of.
ScanEntries ==
  { File(<<"k">> \o DotJpg, "bytes1"),
    File(<<"k",".","p","n","g">>, "bytes1"),
    File(<<"K",",","h","e","l","p",".","J","P","G">>, "bytes2"),
    File(<<"x">> \o DotJpg, "bytes2"),
    File(<<"k",".","t","x","t">>, "bytes3"),
    File(<<"f","o","o"," ","b","a","r",","," ","f","o","o","b","a","r"," ",",",
           " "," ",",",",">> \o DotJpg, "bytes3"),
    Unreadable(<<"k",".","J","p","g">>),
    SubDir(<<"d">> \o DotJpg) }

\* The directories of SpecLoad: one that cannot be listed, and every listing
\* of up to MaxFiles of the entries, no entry twice.
ScanDirs ==
  { [err |-> "open images: no such file or directory", entries |-> <<>>] }
  \cup { [err |-> "nil", entries |-> es] :
           es \in { f \in UNION { [1..n -> ScanEntries] : n \in 0..MaxFiles } :
                      \A i, j \in DOMAIN f : i # j => f[i] # f[j] } }

\* config.ImageExtensions as configured, and as NewFileServingMemepository keeps it.
ConfiguredExtensions == { <<"J","P","G">>, <<"p","n","g">> }
ImageExtensions == { ToLower(e) : e \in ConfiguredExtensions }

\* An isImageFile that does not look at the file mode.
isImageFileAnyMode(file) ==
  getNormalizedExtensionWithoutDot(file.name) \in ImageExtensions

\* FileServingMemepository.isImageFile
isImageFile(file) ==
  IF ~file.regular THEN FALSE
  ELSE getNormalizedExtensionWithoutDot(file.name) \in ImageExtensions

\* A digest that does not depend on the bytes.
generateSha1Base64HashOfNothing(content) == <<"sha1", "">>

\* generateSha1Base64Hash: the digest of the bytes, taken to be collision free.
generateSha1Base64Hash(content) == <<"sha1", content>>

\* newFileMeme, for a file that opens.
newFileMeme(file) ==
  [id |-> generateSha1Base64Hash(file.content) \o <<".">>
            \o getNormalizedExtensionWithoutDot(file.name),
   path |-> file.name,
   keywords |-> parseKeywords(file.name)]

\* ------------------------------------------------------------ the inputs
\* The bot's own identity (slack.UserDetails).
SelfName == <<"n","a","m","e">>
SelfID == <<"i","d">>

\* The pieces message texts are made of, after an optional leading mention.
Prefixes == { <<>>, SelfName, MentionToken(SelfID) }
Chunks == { SelfName, <<" ">>, <<":">>, Help, <<"H","e","L","p">>, <<"k">> }

RECURSIVE Flatten(_)
Flatten(ss) == IF ss = <<>> THEN <<>> ELSE Head(ss) \o Flatten(Tail(ss))

Texts ==
  { pre \o Flatten(cs) :
      pre \in Prefixes, cs \in UNION { [1..n -> Chunks] : n \in 0..MaxChunks } }

\* What a mock searcher may answer.
MockMemes == { [url |-> <<"http://keyword.jpg">>] }
SearchOutcomes ==
  { Found(m) : m \in MockMemes } \cup { ErrNoMemeFound, Failed("load failed") }

\* NewMockMeme(url, keywords...)
NewMockMeme(url, keywords) == [url |-> url, keywords |-> keywords]

\* The memes given to Add, and the keywords looked up, in SpecIndex.
IndexMemes ==
  { NewMockMeme(<<"http://a.com">>, << <<"k">> >>),
    NewMockMeme(<<"http://b.com">>, << <<"K">>, <<"h","e","l","p">> >>),
    NewMockMeme(<<"http://c.com">>, << <<"H","e","L","p">> >>),
    NewMockMeme(<<"http://d.com">>, << <<"k">>, <<"K">> >>),
    NewMockMeme(<<"http://e.com">>, << >>),
    NewMockMeme(<<"http://f.com">>, << <<"h","k">>, <<"H">> >>) }
Queries == { <<"k">>, <<"K">>, <<"h","e","l","p">>, <<"H","E","L","P">>, <<"x">> }

\* The messages, object ids and operations of the callers of Spec.
BotTexts ==
  { SelfName \o <<" ","k">>, <<"k">>, SelfName \o <<" ">> \o Help, SelfName \o <<" ",":">> }
ObjectIds == { <<"sha1", "bytes1", ".","j","p","g">>, <<"sha1", "bytes9", ".","j","p","g">> }
Callers == 1..NumCallers

\* The ids asked of the object server: mux.Vars(req)["id"], "" when there is none.
RequestIds ==
  ObjectIds \cup { <<>>, <<"sha1", "bytes2", ".","j","p","g">> }

\* The bytes another process writes into a file of the directory.
OtherBytes == "bytes7"

VARIABLES
  \* the configuration
  pattern,     \* the configured keyword pattern
  parseAll,    \* config.ParseAllMessages
  parser,      \* what NewRegexpKeywordParser returned for the pattern
  \* the pipeline on one message (SpecMsg)
  text,        \* the inbound message text
  phase,       \* how far the pipeline got on this message
  mention,     \* the result of ParseMention on text
  kw,          \* the result of ParseKeyword on text
  submatch,    \* the result of FindStringSubmatch on text
  parsed,      \* the result of ParseMessage on text
  search,      \* what the searcher answers
  reply,       \* the result of handleMessage
  \* the repository (Spec)
  dir,         \* what the file system holds at config.Path
  loadOnce,    \* sync.Once: "idle", "running" (inside load) or "done"
  memes,       \* FileServingMemepository.memes, None for nil
  memesById,   \* FileServingMemepository.memesById, None for nil
  loadErr,     \* FileServingMemepository.loadErr, "nil" or the error
  entries,     \* the entries load() has still to visit
  scans,       \* how many times load() was entered
  \* the callers (Spec)
  pc,          \* where each caller is
  op,          \* what each caller does
  ret,         \* what Load() returned to each caller
  out,         \* what FindObject / FindMeme returned to each caller
  replyText,   \* the result of handleMessage for each message
  expired,     \* whether the context of each message is done
  sent,        \* the replies handed to rtm.SendMessage, per message
  logged,      \* what the handling of the message wrote to config.Log
  \* an index filled by hand, as in the tests of MemeIndex (SpecIndex)
  added,       \* the memes given to Add so far, in order
  query,       \* the keyword of the last lookup
  hits,        \* what FindByKeyword answered to it
  listed,      \* what Keywords() answered at the last lookup
  result,      \* what FindMeme answered to it
  \* the object server (SpecServe)
  disk,        \* the entries at config.Path as they are now
  responses    \* the responses written so far, in order

cfgVars == <<pattern, parseAll, parser>>
msgVars == <<text, phase, mention, kw, submatch, parsed, search, reply>>
repoVars == <<dir, loadOnce, memes, memesById, loadErr, entries, scans>>
callVars == <<pc, op, ret, out, replyText, expired, sent, logged>>
idxVars == <<added, query, hits, listed, result>>
srvVars == <<disk, responses>>

vars == <<cfgVars, msgVars, repoVars, callVars, idxVars, srvVars>>

\* The state of a repository right after NewFileServingMemepository.
RepoNew ==
  /\ loadOnce = "idle"
  /\ memes = None
  /\ memesById = None
  /\ loadErr = "nil"
  /\ entries = <<>>
  /\ scans = 0

CallersNew ==
  /\ pc = [c \in Callers |-> "idle"]
  /\ op = [c \in Callers |-> None]
  /\ ret = [c \in Callers |-> None]
  /\ out = [c \in Callers |-> None]
  /\ replyText = [c \in Callers |-> NoReply]
  /\ expired = [c \in Callers |-> FALSE]
  /\ sent = [c \in Callers |-> <<>>]
  /\ logged = [c \in Callers |-> <<>>]

\* No request was served, and the files are as the directory lists them.
ServerNew ==
  /\ disk = dir.entries
  /\ responses = <<>>

\* No index has been filled by hand and nothing was looked up in it.
IndexNew ==
  /\ added = <<>>
  /\ query = None
  /\ hits = None
  /\ listed = None
  /\ result = None

\* The parser was built from the configured pattern at start-up.
ParserBuilt == parser = NewRegexpKeywordParser(pattern)

PipelineNew ==
  /\ phase = "new"
  /\ mention = None
  /\ kw = None
  /\ submatch = None
  /\ parsed = None
  /\ search = None
  /\ reply = None

\* --------------------------------------------------- the message pipeline
MsgInit ==
  /\ text \in Texts
  /\ pattern \in PatternIds
  /\ parseAll \in BOOLEAN
  /\ ParserBuilt
  /\ PipelineNew
  /\ dir \in { d \in Dirs : d.entries = <<>> /\ d.err = "nil" }
  /\ RepoNew
  /\ CallersNew
  /\ IndexNew
  /\ ServerNew

DoParseMention ==
  /\ phase = "new"
  /\ mention' = ParseMention(SelfName, SelfID, text)
  /\ phase' = "mention"
  /\ UNCHANGED <<text, kw, submatch, parsed, search, reply>>
  /\ UNCHANGED <<cfgVars, idxVars, srvVars, repoVars, callVars>>

DoParseKeyword ==
  /\ phase = "mention"
  /\ submatch' = FindStringSubmatch(Pattern(pattern), text)
  /\ kw' = ParseKeyword(pattern, text)
  /\ phase' = "keyword"
  /\ UNCHANGED <<text, mention, parsed, search, reply>>
  /\ UNCHANGED <<cfgVars, idxVars, srvVars, repoVars, callVars>>

DoParseMessage ==
  /\ phase = "keyword"
  /\ parsed' = ParseMessage(pattern, SelfName, SelfID, text)
  /\ phase' = "parsed"
  /\ UNCHANGED <<text, mention, kw, submatch, search, reply>>
  /\ UNCHANGED <<cfgVars, idxVars, srvVars, repoVars, callVars>>

DoHandleMessage ==
  /\ phase = "parsed"
  /\ \E found \in SearchOutcomes :
       /\ search' = found
       /\ reply' = handleMessage(ParseMessage(pattern, SelfName, SelfID, text),
                                 pattern, parseAll, text, found)
       /\ logged' = [logged EXCEPT ![1] =
                       Logged(ParseMessage(pattern, SelfName, SelfID, text), parseAll, found)]
  /\ phase' = "handled"
  /\ UNCHANGED <<text, mention, kw, submatch, parsed>>
  /\ UNCHANGED <<cfgVars, idxVars, srvVars, repoVars>>
  /\ UNCHANGED <<pc, op, ret, out, replyText, expired, sent>>

MsgNext == DoParseMention \/ DoParseKeyword \/ DoParseMessage \/ DoHandleMessage

SpecMsg == MsgInit /\ [][MsgNext]_vars

\* ------------------------------------------------ building the parser
ParserTexts == { pre \o c : pre \in Prefixes, c \in Chunks \cup { <<>> } }

ParserInit ==
  /\ text \in ParserTexts
  /\ pattern \in GivenPatternIds
  /\ parseAll = FALSE
  /\ parser = None
  /\ PipelineNew
  /\ dir = [err |-> "nil", entries |-> <<>>]
  /\ RepoNew
  /\ CallersNew
  /\ IndexNew
  /\ ServerNew

\* main: the parser is built from the -keyword-pattern flag.
DoNewParser ==
  /\ phase = "new"
  /\ parser = None
  /\ parser' = NewRegexpKeywordParser(pattern)
  /\ phase' = "built"
  /\ UNCHANGED <<pattern, parseAll, text, mention, kw, submatch, parsed, search, reply>>
  /\ UNCHANGED <<idxVars, srvVars, repoVars, callVars>>

\* A parser that was built without error parses a message.
DoUseParser ==
  /\ phase = "built"
  /\ parser.err = "nil"
  /\ submatch' = FindStringSubmatch(parser.parser.Regexp, text)
  /\ kw' = ParseKeyword(pattern, text)
  /\ phase' = "keyword"
  /\ UNCHANGED <<text, mention, parsed, search, reply>>
  /\ UNCHANGED <<cfgVars, idxVars, srvVars, repoVars, callVars>>

ParserNext == DoNewParser \/ DoUseParser

SpecParser == ParserInit /\ [][ParserNext]_vars

\* ------------------------------------------------------- the repository
Init ==
  /\ pattern = "anchored"
  /\ parseAll \in BOOLEAN
  /\ text = <<>>
  /\ ParserBuilt
  /\ PipelineNew
  /\ dir \in Dirs
  /\ RepoNew
  /\ CallersNew
  /\ IndexNew
  /\ ServerNew

\* A Load that scans again after a failed scan.
DoShouldRunRetry == loadOnce = "idle" \/ (loadOnce = "done" /\ loadErr # "nil")

\* A Load that scans the directory again once a first Load() has returned.
DoShouldRunAgain ==
  \/ loadOnce = "idle"
  \/ loadOnce = "done" /\ scans < 2 /\ \E c \in Callers : ret[c] # None

\* sync.Once.Do: the caller that finds the Once unused runs the function.
DoShouldRun == loadOnce = "idle"

\* A once-flag that lets the other callers through while the function runs.
DoCanReturnEarly == loadOnce # "idle"

\* sync.Once.Do: every other caller returns only when the function has returned.
DoCanReturn == loadOnce = "done"

\* A replyTo that never looks at the context.
CtxDoneIgnored(c) == FALSE

\* <-ctx.Done() in replyTo: the context of the message has expired.
CtxDone(c) == expired[c]

\* A goroutine calls Load() directly.
StartLoad(c) ==
  /\ pc[c] = "idle"
  /\ op' = [op EXCEPT ![c] = [kind |-> "Load"]]
  /\ pc' = [pc EXCEPT ![c] = "callLoad"]
  /\ UNCHANGED <<cfgVars, idxVars, srvVars, msgVars, repoVars, ret, out, replyText, expired, sent, logged>>

\* The object server calls FindObject(id), which begins with Load().
StartFindObject(c) ==
  /\ pc[c] = "idle"
  /\ \E id \in ObjectIds : op' = [op EXCEPT ![c] = [kind |-> "FindObject", id |-> id]]
  /\ pc' = [pc EXCEPT ![c] = "callLoad"]
  /\ UNCHANGED <<cfgVars, idxVars, srvVars, msgVars, repoVars, ret, out, replyText, expired, sent, logged>>

\* MemeBot.handleMessage up to the call of FindMeme, or to its end when
\* handleMessage returns without searching.
StartMessage(c) ==
  /\ pc[c] = "idle"
  /\ \E t \in BotTexts :
       LET p == ParseMessage(pattern, SelfName, SelfID, t)
           r == handleMessage(p, pattern, parseAll, t, None)
       IN /\ op' = [op EXCEPT ![c] = [kind |-> "Message", text |-> t, parsed |-> p]]
          /\ IF CallsFindMeme(p, parseAll)
               THEN /\ pc' = [pc EXCEPT ![c] = "callLoad"]
                    /\ UNCHANGED replyText
               ELSE /\ replyText' = [replyText EXCEPT ![c] = r]
                    /\ pc' = [pc EXCEPT ![c] = IF r # NoReply THEN "reply" ELSE "done"]
  /\ UNCHANGED <<cfgVars, idxVars, srvVars, msgVars, repoVars, ret, out, expired, sent, logged>>

\* m.loadOnce.Do(m.load): the first caller enters load().
DoEnter(c) ==
  /\ pc[c] = "callLoad"
  /\ DoShouldRun
  /\ loadOnce' = "running"
  /\ scans' = scans + 1
  /\ pc' = [pc EXCEPT ![c] = "scan"]
  /\ UNCHANGED <<cfgVars, idxVars, srvVars, msgVars, dir, memes, memesById, loadErr, entries>>
  /\ UNCHANGED <<op, ret, out, replyText, expired, sent, logged>>

\* load(): ReadDirEntries, then the fresh index and id map.
ReadDir(c) ==
  /\ pc[c] = "scan"
  /\ IF dir.err # "nil"
       THEN /\ loadErr' = dir.err
            /\ pc' = [pc EXCEPT ![c] = "scanned"]
            /\ UNCHANGED <<memes, memesById, entries>>
       ELSE /\ memes' = NewMemeIndex(scans)
            /\ memesById' = <<>>
            /\ entries' = dir.entries
            /\ pc' = [pc EXCEPT ![c] = "entries"]
            /\ UNCHANGED loadErr
  /\ UNCHANGED <<cfgVars, idxVars, srvVars, msgVars, dir, loadOnce, scans>>
  /\ UNCHANGED <<op, ret, out, replyText, expired, sent, logged>>

\* A load() that gives up at the first file it cannot open.
LoadEntryFatal(c) ==
  /\ pc[c] = "entries"
  /\ entries # <<>>
  /\ LET entry == Head(entries)
         meme == newFileMeme(entry)
     IN IF isImageFile(entry) /\ ~entry.openErr
          THEN /\ memes' = Add(memes, meme)
               /\ memesById' = [x \in DOMAIN memesById \cup {meme.id} |->
                                  IF x = meme.id THEN meme ELSE memesById[x]]
               /\ entries' = Tail(entries)
               /\ UNCHANGED loadErr
          ELSE IF isImageFile(entry)
            THEN /\ loadErr' = "open failed"
                 /\ entries' = <<>>
                 /\ UNCHANGED <<memes, memesById>>
            ELSE /\ entries' = Tail(entries)
                 /\ UNCHANGED <<memes, memesById, loadErr>>
  /\ UNCHANGED <<cfgVars, idxVars, srvVars, msgVars, dir, loadOnce, scans>>
  /\ UNCHANGED callVars

\* A load() that adds a meme to the index and forgets the id map.
LoadEntryIndexOnly(c) ==
  /\ pc[c] = "entries"
  /\ entries # <<>>
  /\ LET entry == Head(entries)
         meme == newFileMeme(entry)
     IN IF isImageFile(entry) /\ ~entry.openErr
          THEN /\ memes' = Add(memes, meme)
               /\ UNCHANGED memesById
          ELSE UNCHANGED <<memes, memesById>>
  /\ entries' = Tail(entries)
  /\ UNCHANGED <<cfgVars, idxVars, srvVars, msgVars, dir, loadOnce, loadErr, scans>>
  /\ UNCHANGED callVars

\* load(): one iteration of the loop over the entries.
LoadEntry(c) ==
  /\ pc[c] = "entries"
  /\ entries # <<>>
  /\ LET entry == Head(entries)
         meme == newFileMeme(entry)
     IN IF isImageFile(entry) /\ ~entry.openErr
          THEN /\ memes' = Add(memes, meme)
               /\ memesById' = [x \in DOMAIN memesById \cup {meme.id} |->
                                  IF x = meme.id THEN meme ELSE memesById[x]]
          ELSE UNCHANGED <<memes, memesById>>
  /\ entries' = Tail(entries)
  /\ UNCHANGED <<cfgVars, idxVars, srvVars, msgVars, dir, loadOnce, loadErr, scans>>
  /\ UNCHANGED callVars

\* load(): the loop is over.
LoadEnd(c) ==
  /\ pc[c] = "entries"
  /\ entries = <<>>
  /\ pc' = [pc EXCEPT ![c] = "scanned"]
  /\ UNCHANGED <<cfgVars, idxVars, srvVars, msgVars, repoVars>>
  /\ UNCHANGED <<op, ret, out, replyText, expired, sent, logged>>

\* load() has returned: the Once is done, and the caller that ran it is back in
\* Load(), about to return m.memes and m.loadErr like every other caller.
DoExit(c) ==
  /\ pc[c] = "scanned"
  /\ loadOnce' = "done"
  /\ pc' = [pc EXCEPT ![c] = "callLoad"]
  /\ UNCHANGED <<cfgVars, idxVars, srvVars, msgVars, dir, memes, memesById, loadErr, entries, scans>>
  /\ UNCHANGED <<op, ret, out, replyText, expired, sent, logged>>

\* What Load() returns: return m.memes, m.loadErr.
LoadResult == [memes |-> memes, err |-> loadErr]

\* Load() returns to a goroutine that called it directly.
LoadReturn(c) ==
  /\ pc[c] = "callLoad"
  /\ ~DoShouldRun
  /\ DoCanReturn
  /\ op[c].kind = "Load"
  /\ ret' = [ret EXCEPT ![c] = LoadResult]
  /\ pc' = [pc EXCEPT ![c] = "done"]
  /\ UNCHANGED <<cfgVars, idxVars, srvVars, msgVars, repoVars, op, out, replyText, expired, sent, logged>>

\* FileServingMemepository.FindObject after its Load(): the id map is read
\* only when Load gave no error.
FindObject(id) ==
  IF loadErr # "nil" THEN [object |-> None, found |-> FALSE]
  ELSE IF memesById # None /\ id \in DOMAIN memesById
    THEN [object |-> memesById[id], found |-> TRUE]
  ELSE [object |-> None, found |-> FALSE]

\* FindObject returns to the goroutine that called it.
FindObjectReturn(c) ==
  /\ pc[c] = "callLoad"
  /\ ~DoShouldRun
  /\ DoCanReturn
  /\ op[c].kind = "FindObject"
  /\ ret' = [ret EXCEPT ![c] = LoadResult]
  /\ out' = [out EXCEPT ![c] = FindObject(op[c].id)]
  /\ pc' = [pc EXCEPT ![c] = "done"]
  /\ UNCHANGED <<cfgVars, idxVars, srvVars, msgVars, repoVars, op, replyText, expired, sent, logged>>

\* The values rand.Intn(len(results)) may give in FindMeme for the keyword.
IntnRange(keyword) ==
  IF loadErr = "nil" /\ memes # None /\ Len(FindByKeyword(memes, keyword)) > 0
    THEN 0..(Len(FindByKeyword(memes, keyword)) - 1)
    ELSE {0}

\* A FindMeme that answers "no meme found" when the load failed.
FindMemeHidesLoadError(keyword, index) ==
  IF loadErr # "nil" THEN ErrNoMemeFound
  ELSE IF memes = None THEN [meme |-> NoMeme, err |-> "panic"]
  ELSE LET results == FindByKeyword(memes, keyword)
       IN IF Len(results) = 0 THEN ErrNoMemeFound
          ELSE Found(results[index + 1])

\* A FindMeme that answers the first match.
FindMemeFirst(keyword, index) ==
  IF loadErr # "nil" THEN Failed(loadErr)
  ELSE IF memes = None THEN [meme |-> NoMeme, err |-> "panic"]
  ELSE LET results == FindByKeyword(memes, keyword)
       IN IF Len(results) = 0 THEN ErrNoMemeFound
          ELSE Found(results[1])

\* MemepositorySearcher.FindMeme after its Load(), with index the value of
\* rand.Intn(len(results)); a nil index is a nil dereference.
FindMeme(keyword, index) ==
  IF loadErr # "nil" THEN Failed(loadErr)
  ELSE IF memes = None THEN [meme |-> NoMeme, err |-> "panic"]
  ELSE LET results == FindByKeyword(memes, keyword)
       IN IF Len(results) = 0 THEN ErrNoMemeFound
          ELSE Found(results[index + 1])

\* The rest of handleMessage: FindMeme returns and the reply text is made.
FindMemeReturn(c) ==
  /\ pc[c] = "callLoad"
  /\ ~DoShouldRun
  /\ DoCanReturn
  /\ op[c].kind = "Message"
  /\ ret' = [ret EXCEPT ![c] = LoadResult]
  /\ \E index \in IntnRange(op[c].parsed.keyword) :
       LET found == FindMeme(op[c].parsed.keyword, index)
           r == handleMessage(op[c].parsed, pattern, parseAll, op[c].text, found)
       IN /\ out' = [out EXCEPT ![c] = found]
          /\ IF found.err = "panic"
               THEN /\ pc' = [pc EXCEPT ![c] = "panic"]
                    /\ UNCHANGED <<replyText, logged>>
               ELSE /\ replyText' = [replyText EXCEPT ![c] = r]
                    /\ logged' = [logged EXCEPT ![c] =
                                    @ \o Logged(op[c].parsed, parseAll, found)]
                    /\ pc' = [pc EXCEPT ![c] = IF r # NoReply THEN "reply" ELSE "done"]
  /\ UNCHANGED <<cfgVars, idxVars, srvVars, msgVars, repoVars, op, expired, sent>>

\* The deadline of context.WithTimeout(ctx, MaxReplyTimeout) passes while the
\* message is being handled.
Timeout(c) ==
  /\ pc[c] \notin {"idle", "done", "panic"}
  /\ op[c].kind = "Message"
  /\ ~expired[c]
  /\ expired' = [expired EXCEPT ![c] = TRUE]
  /\ UNCHANGED <<cfgVars, idxVars, srvVars, msgVars, repoVars, pc, op, ret, out, replyText, sent, logged>>

\* replyTo, the context being done: the message is logged instead of answered.
ContextDoneLog(msg) == [what |-> "context done, not sending reply:", about |-> msg]

\* A replyTo that sends the reply once more than it should.
ReplyToTwice(c) ==
  /\ pc[c] = "reply"
  /\ IF CtxDone(c)
       THEN /\ logged' = [logged EXCEPT ![c] = Append(@, ContextDoneLog(op[c].text))]
            /\ UNCHANGED sent
       ELSE /\ sent' = [sent EXCEPT ![c] = Append(Append(@, replyText[c]), replyText[c])]
            /\ UNCHANGED logged
  /\ pc' = [pc EXCEPT ![c] = "done"]
  /\ UNCHANGED <<cfgVars, idxVars, srvVars, msgVars, repoVars, op, ret, out, replyText, expired>>

\* MemeBot.replyTo: the select on ctx.Done() and the send.
ReplyTo(c) ==
  /\ pc[c] = "reply"
  /\ IF CtxDone(c)
       THEN /\ logged' = [logged EXCEPT ![c] = Append(@, ContextDoneLog(op[c].text))]
            /\ UNCHANGED sent
       ELSE /\ sent' = [sent EXCEPT ![c] = Append(@, replyText[c])]
            /\ UNCHANGED logged
  /\ pc' = [pc EXCEPT ![c] = "done"]
  /\ UNCHANGED <<cfgVars, idxVars, srvVars, msgVars, repoVars, op, ret, out, replyText, expired>>

Next ==
  \E c \in Callers :
    \/ StartLoad(c)
    \/ StartFindObject(c)
    \/ StartMessage(c)
    \/ DoEnter(c)
    \/ ReadDir(c)
    \/ LoadEntry(c)
    \/ LoadEnd(c)
    \/ DoExit(c)
    \/ LoadReturn(c)
    \/ FindObjectReturn(c)
    \/ FindMemeReturn(c)
    \/ Timeout(c)
    \/ ReplyTo(c)

Spec == Init /\ [][Next]_vars

\* ------------------------------------------------- one caller, any files
\* The repository used by one goroutine, over every directory of ScanDirs.
LoadInit ==
  /\ pattern = "anchored"
  /\ parseAll \in BOOLEAN
  /\ text = <<>>
  /\ ParserBuilt
  /\ PipelineNew
  /\ dir \in ScanDirs
  /\ RepoNew
  /\ CallersNew
  /\ IndexNew
  /\ ServerNew

LoadNext ==
  \/ StartLoad(1)
  \/ StartFindObject(1)
  \/ StartMessage(1)
  \/ DoEnter(1)
  \/ ReadDir(1)
  \/ LoadEntry(1)
  \/ LoadEnd(1)
  \/ DoExit(1)
  \/ LoadReturn(1)
  \/ FindObjectReturn(1)
  \/ FindMemeReturn(1)
  \/ ReplyTo(1)

SpecLoad == LoadInit /\ [][LoadNext]_vars

\* ------------------------------------------------------ the object server
\* FileMeme.Open: FileSystem.Open(m.path) on the files as they are now.
Open(path) ==
  LET here == { i \in 1..Len(disk) : disk[i].name = path /\ ~disk[i].openErr }
  IN IF here = {} THEN [err |-> "open failed", content |-> ""]
     ELSE [err |-> "nil", content |-> disk[CHOOSE i \in here : TRUE].content]

\* The responses of the handler.
BadRequest(id) == [id |-> id, status |-> 400, body |-> "no ID specified"]
NotFound(id) == [id |-> id, status |-> 404, body |-> "404 page not found"]
InternalServerError(id) == [id |-> id, status |-> 500, body |-> "error opening object"]
\* http.ServeContent for a GET without Range or conditional headers.
ServeContent(id, content) == [id |-> id, status |-> 200, body |-> content]

\* A handler that looks up the empty id like any other.
ServeHTTPNoIdCheck(id) ==
  LET f == FindObject(id)
  IN IF ~f.found THEN NotFound(id)
     ELSE LET data == Open(f.object.path)
          IN IF data.err # "nil" THEN InternalServerError(id)
             ELSE ServeContent(id, data.content)

\* The handler of CreateObjectServer, FindObject having loaded the repository.
ServeHTTP(id) ==
  IF id = <<>> THEN BadRequest(id)
  ELSE LET f == FindObject(id)
       IN IF ~f.found THEN NotFound(id)
          ELSE LET data == Open(f.object.path)
               IN IF data.err # "nil" THEN InternalServerError(id)
                  ELSE ServeContent(id, data.content)

\* A request arrives; the handler answers 400 at once when there is no id,
\* and calls FindObject, which begins with Load(), when there is one.
StartGet(c) ==
  /\ pc[c] = "idle"
  /\ Len(responses) < MaxRequests
  /\ \E id \in RequestIds :
       /\ op' = [op EXCEPT ![c] = [kind |-> "Get", id |-> id]]
       /\ IF id = <<>>
            THEN /\ responses' = Append(responses, ServeHTTP(id))
                 /\ pc' = [pc EXCEPT ![c] = "done"]
            ELSE /\ pc' = [pc EXCEPT ![c] = "callLoad"]
                 /\ UNCHANGED responses
  /\ UNCHANGED <<cfgVars, idxVars, msgVars, repoVars, disk>>
  /\ UNCHANGED <<ret, out, replyText, expired, sent, logged>>

\* FindObject returns in the handler, which writes its response.
GetReturn(c) ==
  /\ pc[c] = "callLoad"
  /\ ~DoShouldRun
  /\ DoCanReturn
  /\ op[c].kind = "Get"
  /\ ret' = [ret EXCEPT ![c] = LoadResult]
  /\ out' = [out EXCEPT ![c] = FindObject(op[c].id)]
  /\ responses' = Append(responses, ServeHTTP(op[c].id))
  /\ pc' = [pc EXCEPT ![c] = "done"]
  /\ UNCHANGED <<cfgVars, idxVars, msgVars, repoVars, disk>>
  /\ UNCHANGED <<op, replyText, expired, sent, logged>>

\* The handler has returned; the server takes the next request.
NextRequest(c) ==
  /\ pc[c] = "done"
  /\ Len(responses) < MaxRequests
  /\ pc' = [pc EXCEPT ![c] = "idle"]
  /\ op' = [op EXCEPT ![c] = None]
  /\ ret' = [ret EXCEPT ![c] = None]
  /\ out' = [out EXCEPT ![c] = None]
  /\ UNCHANGED <<cfgVars, idxVars, msgVars, repoVars, srvVars>>
  /\ UNCHANGED <<replyText, expired, sent, logged>>

\* Another process rewrites a file of the directory after the load.
WriteFile ==
  /\ loadOnce = "done"
  /\ \E i \in 1..Len(disk) :
       /\ disk[i].regular /\ ~disk[i].openErr /\ disk[i].content # OtherBytes
       /\ disk' = [disk EXCEPT ![i].content = OtherBytes]
  /\ UNCHANGED <<cfgVars, idxVars, msgVars, repoVars, callVars, responses>>

\* Another process removes a file of the directory after the load.
RemoveFile ==
  /\ loadOnce = "done"
  /\ \E i \in 1..Len(disk) :
       /\ disk[i].regular /\ ~disk[i].openErr
       /\ disk' = [disk EXCEPT ![i].openErr = TRUE]
  /\ UNCHANGED <<cfgVars, idxVars, msgVars, repoVars, callVars, responses>>

ServeInit ==
  /\ pattern = "anchored"
  /\ parseAll = FALSE
  /\ text = <<>>
  /\ ParserBuilt
  /\ PipelineNew
  /\ dir \in Dirs
  /\ RepoNew
  /\ CallersNew
  /\ IndexNew
  /\ ServerNew

ServeNext ==
  \/ StartGet(1)
  \/ DoEnter(1)
  \/ ReadDir(1)
  \/ LoadEntry(1)
  \/ LoadEnd(1)
  \/ DoExit(1)
  \/ GetReturn(1)
  \/ NextRequest(1)
  \/ WriteFile
  \/ RemoveFile

SpecServe == ServeInit /\ [][ServeNext]_vars

\* ---------------------------------------------------- an index by hand
\* A MemeIndex filled by Add calls and held by a MockMemepository, whose
\* Load() answers the index and no error; lookups go to FindByKeyword and,
\* through a MemepositorySearcher, to FindMeme.
IndexInit ==
  /\ pattern = "anchored"
  /\ parseAll = FALSE
  /\ text = <<>>
  /\ ParserBuilt
  /\ PipelineNew
  /\ dir = [err |-> "nil", entries |-> <<>>]
  /\ loadOnce = "done"
  /\ memes = NewMemeIndex(0)
  /\ memesById = <<>>
  /\ loadErr = "nil"
  /\ entries = <<>>
  /\ scans = 0
  /\ CallersNew
  /\ IndexNew
  /\ ServerNew

\* memes.Add(meme)
AddMeme ==
  /\ Len(added) < MaxAdds
  /\ \E meme \in IndexMemes :
       /\ memes' = Add(memes, meme)
       /\ added' = Append(added, meme)
  /\ UNCHANGED <<query, hits, listed, result>>
  /\ UNCHANGED <<cfgVars, srvVars, msgVars, callVars>>
  /\ UNCHANGED <<dir, loadOnce, memesById, loadErr, entries, scans>>

\* memes.Keywords(), memes.FindByKeyword(keyword) and searcher.FindMeme(keyword)
Lookup ==
  /\ \E keyword \in Queries :
       /\ query' = keyword
       /\ hits' = FindByKeyword(memes, keyword)
       /\ listed' = Keywords(memes)
       /\ \E index \in IntnRange(keyword) : result' = FindMeme(keyword, index)
  /\ UNCHANGED added
  /\ UNCHANGED <<cfgVars, srvVars, msgVars, repoVars, callVars>>

IndexNext == AddMeme \/ Lookup

SpecIndex == IndexInit /\ [][IndexNext]_vars

\* ------------------------------------------------------------ properties
\* The entries of the directory that load() turns into memes.
Loadable(entry) == isImageFile(entry) /\ ~entry.openErr
LoadableCount == Cardinality({ i \in 1..Len(dir.entries) : Loadable(dir.entries[i]) })
LoadableIds == { newFileMeme(dir.entries[i]).id :
                   i \in { j \in 1..Len(dir.entries) : Loadable(dir.entries[j]) } }

\* C1: over any number of Load() calls on one repository the directory is
\* scanned exactly once, a failed scan included, and all the calls return the
\* same index reference and the same error.
C1_LoadScansOnce ==
  /\ scans <= 1
  /\ \A c \in Callers : ret[c] # None => scans = 1
  /\ \A c, d \in Callers :
       ret[c] # None /\ ret[d] # None =>
         /\ ret[c].err = ret[d].err
         /\ (ret[c].memes = None) = (ret[d].memes = None)
         /\ ret[c].memes # None => ret[c].memes.ref = ret[d].memes.ref

\* Two callers have returned from Load() with the error of the one failed scan.
C1_Witness ==
  \E c, d \in Callers :
    /\ c # d
    /\ ret[c] # None /\ ret[d] # None
    /\ ret[c].err # "nil" /\ ret[d].err = ret[c].err
    /\ scans = 1

\* C2: no call of Load(), direct or through FindMeme or FindObject, returns
\* before the one load has completed: what a caller gets is the finished
\* index and id map, never nil and never a part of them.
C2_NoReturnBeforeLoaded ==
  \A c \in Callers :
    ret[c] # None =>
      /\ loadOnce = "done"
      /\ ret[c].err = "nil" =>
           /\ ret[c].memes # None
           /\ Len(ret[c].memes.all) = LoadableCount
           /\ op[c].kind = "FindObject" => (out[c].found <=> op[c].id \in LoadableIds)
           /\ op[c].kind = "Message" => out[c].err # "panic"

\* A caller is held in Load() while the index of the running load is half built.
C2_Witness ==
  /\ loadOnce = "running"
  /\ memes # None /\ Len(memes.all) = 1 /\ entries # <<>>
  /\ \E c \in Callers : pc[c] = "callLoad" /\ ret[c] = None

\* C3: a message that does not mention the bot gets no reply when
\* ParseAllMessages is false, whatever was parsed and whatever the searcher says.
C3_UnmentionedIgnored ==
  phase = "handled" /\ ~mention.mentioned /\ ~parseAll => reply = NoReply

\* An unmentioned message with a keyword the searcher finds a meme for.
C3_Witness ==
  /\ phase = "handled" /\ ~mention.mentioned /\ ~parseAll
  /\ parsed.keyword # <<>> /\ search.err = "nil"
  /\ reply = NoReply

\* C4: the reply is the "unrecognized phrase" message, made of the original
\* text, exactly when the bot is mentioned, help is not asked and no keyword
\* was extracted; so an unmentioned message without keyword gets no reply.
C4_NotUnderstoodIffMentioned ==
  phase = "handled" =>
    /\ reply = OnPhraseNotUnderstood(text, GenerateSample(pattern))
         <=> (parsed.mentioned /\ ~parsed.help /\ parsed.keyword = <<>>)
    /\ ~parsed.mentioned /\ parsed.keyword = <<>> => reply = NoReply

\* A mentioned phrase without keyword is answered; the text is more than the mention.
C4_Witness ==
  /\ phase = "handled" /\ parsed.mentioned /\ ~parsed.help /\ parsed.keyword = <<>>
  /\ mention.cleanMsg # <<>>
  /\ reply = OnPhraseNotUnderstood(text, GenerateSample(pattern))

\* C5: with a keyword and a failing searcher, the reply is the "couldn't find
\* a meme" message if and only if the bot was mentioned, and nothing otherwise.
C5_FailureRepliedIffMentioned ==
  phase = "handled" /\ parsed.keyword # <<>> /\ search.err # "nil" =>
    /\ reply = OnNoMemeFound(parsed.keyword) <=> parsed.mentioned
    /\ ~parsed.mentioned => reply = NoReply

\* A mentioned keyword whose search fails with an error other than ErrNoMemeFound.
C5_Witness ==
  /\ phase = "handled" /\ parsed.keyword # <<>> /\ parsed.mentioned
  /\ search.err \notin {"nil", ErrNoMemeFound.err}
  /\ reply = OnNoMemeFound(parsed.keyword)

\* C6: with a keyword, a meme found, and the bot mentioned or ParseAllMessages
\* set, the reply is the URL of that meme.
C6_FoundRepliesURL ==
  phase = "handled" /\ parsed.keyword # <<>> /\ search.err = "nil"
    /\ (parsed.mentioned \/ parseAll)
  => reply = URLString(search.meme)

\* An unmentioned message gets the URL under ParseAllMessages.
C6_Witness ==
  /\ phase = "handled" /\ ~parsed.mentioned /\ parseAll
  /\ parsed.keyword # <<>> /\ search.err = "nil"
  /\ reply = URLString(search.meme)

\* strings.EqualFold on the characters of the model.
EqualFold(a, b) ==
  /\ Len(a) = Len(b)
  /\ \A i \in 1..Len(a) : ToLowerChar(a[i]) = ToLowerChar(b[i])

\* C7: ParseMessage answers help exactly when the bot is mentioned and the
\* rest of the text is "help" in any case; the keyword is then empty, and
\* without a mention the text goes to the keyword parser as it is.
C7_HelpOnlyWhenMentioned ==
  phase \in {"parsed", "handled"} =>
    /\ parsed.help <=> (mention.mentioned /\ EqualFold(mention.cleanMsg, Help))
    /\ parsed.help => parsed.keyword = <<>>
    /\ ~mention.mentioned => parsed.keyword = kw.keyword /\ parsed.mentioned = FALSE

\* Help asked in mixed case, under a pattern that matches the word help.
C7_Witness ==
  /\ phase = "parsed" /\ parsed.help /\ parsed.keyword = <<>>
  /\ mention.cleanMsg = <<"H","e","L","p">>
  /\ ParseKeyword(pattern, mention.cleanMsg).matched

NonEmptyGroups(m) == { i \in 2..Len(m) : m[i] # <<>> }

Trimmed(s) ==
  LET keep == { i \in 1..Len(s) : ~IsSpace(s[i]) }
  IN IF keep = {} THEN <<>>
     ELSE SubSeq(s, CHOOSE i \in keep : \A j \in keep : i <= j,
                    CHOOSE i \in keep : \A j \in keep : j <= i)

\* C10: for a text made of the bot's name, a space and a rest, ParseMention
\* answers the trimmed rest and true; for the name alone, "" and true.
C10_NameThenRest ==
  phase # "new" =>
    /\ HasPrefix(text, SelfName \o <<" ">>) =>
         mention = [cleanMsg |-> Trimmed(SubSeq(text, Len(SelfName) + 2, Len(text))),
                    mentioned |-> TRUE]
    /\ text = SelfName => mention = [cleanMsg |-> <<>>, mentioned |-> TRUE]

\* The name occurs again in the rest and stays there; the white space around it goes.
C10_Witness ==
  /\ phase = "mention"
  /\ text = SelfName \o <<" ">> \o SelfName \o <<" ">>
  /\ mention = [cleanMsg |-> SelfName, mentioned |-> TRUE]

\* The part of s from its first white space on; empty when s has none.
FromFirstSpace(s) ==
  LET spaces == { i \in 1..Len(s) : IsSpace(s[i]) }
  IN IF spaces = {} THEN <<>>
     ELSE SubSeq(s, CHOOSE i \in spaces : \A j \in spaces : i <= j, Len(s))

\* C11: for a text that begins with the display name or with the token
\* "<@" + id + ">", ParseMention answers mentioned, and when white space
\* follows, what it answers is the text after the prefix without everything
\* up to that white space, trimmed.
C11_PrefixStripped ==
  phase # "new" =>
    \A prefix \in {SelfName, <<"<","@">> \o SelfID \o <<">">>} :
      HasPrefix(text, prefix) =>
        LET rest == SubSeq(text, Len(prefix) + 1, Len(text))
        IN /\ mention.mentioned
           /\ (\E i \in 1..Len(rest) : IsSpace(rest[i])) =>
                 mention.cleanMsg = Trimmed(FromFirstSpace(rest))

\* "<@id>: k" gives ("k", true): the colon glued to the token goes with it.
C11_Witness ==
  /\ phase = "mention"
  /\ text = <<"<","@","i","d",">",":"," ","k">>
  /\ mention = [cleanMsg |-> <<"k">>, mentioned |-> TRUE]

\* C12: a text that begins neither with the display name nor with the token
\* comes back as it is, with mentioned false.
C12_UnmentionedUnchanged ==
  phase # "new"
    /\ ~HasPrefix(text, SelfName)
    /\ ~HasPrefix(text, <<"<","@">> \o SelfID \o <<">">>)
  => mention = [cleanMsg |-> text, mentioned |-> FALSE]

\* The name comes after a space: no mention, and the spaces around it stay.
C12_Witness ==
  /\ phase = "mention"
  /\ text = <<" ">> \o SelfName \o <<" ">>
  /\ mention = [cleanMsg |-> text, mentioned |-> FALSE]

\* The elements of a sequence.
Range(seq) == { seq[i] : i \in 1..Len(seq) }

\* Whether meme carries a keyword equal to keyword up to letter case.
Carries(meme, keyword) ==
  \E i \in 1..Len(meme.keywords) : EqualFold(meme.keywords[i], keyword)

\* C13: after any sequence of Add calls, FindByKeyword(k) contains a meme if
\* and only if that meme was added and carries a keyword equal to k up to
\* letter case.
C13_IndexedByEveryKeyword ==
  \A keyword \in Queries \cup UNION { Range(m.keywords) : m \in IndexMemes } :
    \A meme \in IndexMemes :
      meme \in Range(FindByKeyword(memes, keyword))
        <=> (meme \in Range(added) /\ Carries(meme, keyword))

\* A meme is found under its second keyword, next to a meme that carries that
\* keyword in another case, while a third meme of the index is not found.
C13_Witness ==
  /\ result # None
  /\ query = <<"h","e","l","p">>
  /\ hits = << NewMockMeme(<<"http://b.com">>, << <<"K">>, <<"h","e","l","p">> >>),
              NewMockMeme(<<"http://c.com">>, << <<"H","e","L","p">> >>) >>
  /\ hits = FindByKeyword(memes, query)
  /\ NewMockMeme(<<"http://a.com">>, << <<"k">> >>) \in Range(added)

\* The answers FindMeme can give for a keyword, over the values of rand.Intn.
FindMemeAnswers(keyword) == { FindMeme(keyword, index) : index \in IntnRange(keyword) }

\* C14: two keywords that differ only in letter case get the same answer
\* from FindByKeyword, and so from FindMeme, whatever the case of the
\* keywords the memes were added under.
C14_LookupIgnoresCase ==
  \A k1, k2 \in Queries \cup UNION { Range(m.keywords) : m \in IndexMemes } :
    EqualFold(k1, k2) =>
      /\ FindByKeyword(memes, k1) = FindByKeyword(memes, k2)
      /\ FindMemeAnswers(k1) = FindMemeAnswers(k2)

\* "HELP" finds a meme added under "HeLp" and a meme added under "help".
C14_Witness ==
  /\ result # None
  /\ query = <<"H","E","L","P">>
  /\ hits = FindByKeyword(memes, query)
  /\ \E i, j \in 1..Len(hits) :
       /\ <<"H","e","L","p">> \in Range(hits[i].keywords)
       /\ <<"h","e","l","p">> \in Range(hits[j].keywords)
  /\ result.err = "nil" /\ result.meme \in Range(hits)

\* The callers whose FindMeme has returned.
Searched == { c \in Callers : op[c] # None /\ op[c].kind = "Message" /\ out[c] # None }

\* C15: FindMeme fails with ErrNoMemeFound exactly when the load succeeded
\* and no meme of the index carries the keyword up to letter case; when the
\* load failed it fails with the error of the load.
C15_NotFoundOrLoadError ==
  \A c \in Searched :
    /\ out[c].err = ErrNoMemeFound.err
          <=> /\ dir.err = "nil"
              /\ ~\E i \in 1..Len(memes.all) : Carries(memes.all[i], op[c].parsed.keyword)
    /\ dir.err # "nil" => out[c] = Failed(dir.err)

\* The directory was read, a meme was loaded, and none carries the keyword.
C15_Witness ==
  \E c \in Searched :
    /\ out[c] = ErrNoMemeFound
    /\ loadErr = "nil" /\ Len(memes.all) > 0
    /\ op[c].parsed.keyword = <<"k">>

\* C16: a meme that FindMeme returns is one of FindByKeyword(keyword), and
\* each of them is returned for some value of rand.Intn, which takes every
\* position of the result.
C16_AnyMatchReturned ==
  /\ \A c \in Searched :
       out[c].err = "nil" =>
         out[c].meme \in Range(FindByKeyword(memes, op[c].parsed.keyword))
  /\ loadOnce = "done" /\ loadErr = "nil" =>
       \A keyword \in Queries :
         LET results == FindByKeyword(memes, keyword)
         IN Len(results) > 0 =>
              /\ IntnRange(keyword) = 0..(Len(results) - 1)
              /\ \A i \in 1..Len(results) :
                   \E index \in IntnRange(keyword) :
                     FindMeme(keyword, index) = Found(results[i])

\* A message was answered with the second of the two memes of its keyword,
\* a meme that carries the keyword in the other case.
C16_Witness ==
  \E c \in Searched :
    /\ out[c].err = "nil"
    /\ Len(FindByKeyword(memes, op[c].parsed.keyword)) = 2
    /\ out[c].meme = FindByKeyword(memes, op[c].parsed.keyword)[2]
    /\ op[c].parsed.keyword \notin Range(out[c].meme.keywords)

\* The directory entry a loaded meme was made from.
LoadedFile(meme) == CHOOSE e \in Range(dir.entries) : e.name = meme.path

\* The pairs of memes of the index.
LoadedPairs ==
  IF memes = None THEN {}
  ELSE { <<memes.all[i], memes.all[j]>> : i, j \in 1..Len(memes.all) }

\* C17, as stated: two files of the directory have the same id exactly when
\* they have the same bytes.
C17_SameBytesSameId ==
  \A pair \in LoadedPairs :
    pair[1].id = pair[2].id <=> LoadedFile(pair[1]).content = LoadedFile(pair[2]).content

\* C17, amended: two files of the directory have the same id, and so the
\* same URL, exactly when they have the same bytes and the same extension up
\* to letter case; files with different bytes never have the same id.
C17_SameBytesAndExtensionSameId ==
  \A pair \in LoadedPairs :
    LET a == LoadedFile(pair[1])
        b == LoadedFile(pair[2])
    IN /\ pair[1].id = pair[2].id
            <=> (a.content = b.content /\ EqualFold(Ext(a.name), Ext(b.name)))
       /\ pair[1].id = pair[2].id <=> URLString(pair[1]) = URLString(pair[2])
       /\ a.content # b.content => pair[1].id # pair[2].id

\* Two files with the same bytes, one ".JPG" and one ".jpg", were loaded with
\* one id: the index holds both and the id map one.
C17_Witness ==
  /\ loadOnce = "done" /\ loadErr = "nil"
  /\ Len(memes.all) = 2
  /\ memes.all[1].path # memes.all[2].path
  /\ Ext(memes.all[1].path) # Ext(memes.all[2].path)
  /\ memes.all[1].id = memes.all[2].id
  /\ DOMAIN memesById = { memes.all[1].id }

\* Whether name ends with a dot and extension x, up to letter case.
HasExtension(name, x) ==
  /\ Len(name) > Len(x)
  /\ EqualFold(SubSeq(name, Len(name) - Len(x), Len(name)), <<".">> \o x)

\* Whether the extension of name is one of the configured extensions.
Allowed(name) == \E x \in ConfiguredExtensions : HasExtension(name, x)

\* Whether the index, and the id map, hold a meme made from entry e.
Indexed(e) == memes # None /\ \E i \in 1..Len(memes.all) : memes.all[i].path = e.name
InIdMap(e) ==
  memesById # None /\ \E id \in DOMAIN memesById : memesById[id].path = e.name

\* C18: a file that cannot be opened or read is left out of the index and of
\* the id map, the other image files are loaded, and Load() returns no
\* error; Load() returns an error exactly when the directory cannot be listed.
C18_UnreadableSkipped ==
  loadOnce = "done" =>
    /\ loadErr # "nil" <=> dir.err # "nil"
    /\ \A c \in Callers : ret[c] # None => ret[c].err = dir.err
    /\ dir.err = "nil" =>
         \A e \in Range(dir.entries) :
           /\ e.openErr => ~Indexed(e) /\ ~InIdMap(e)
           /\ e.regular /\ Allowed(e.name) /\ ~e.openErr => Indexed(e)

\* The first file could not be opened, the second was loaded, and Load()
\* returned the index without error.
C18_Witness ==
  /\ loadOnce = "done"
  /\ Len(dir.entries) = 2 /\ dir.entries[1].openErr
  /\ Len(memes.all) = 1 /\ memes.all[1].path = dir.entries[2].name
  /\ \E c \in Callers : ret[c] # None /\ ret[c].err = "nil" /\ ret[c].memes = memes

\* C19: after a successful load the index holds a meme for an entry of the
\* directory exactly when the entry is a regular file with a configured
\* extension, compared without regard to letter case on both sides, that
\* could be read; it holds nothing else, so nothing from below a subdirectory.
C19_IndexedIffImageFile ==
  loadOnce = "done" /\ loadErr = "nil" =>
    /\ \A e \in Range(dir.entries) :
         Indexed(e) <=> (e.regular /\ Allowed(e.name) /\ ~e.openErr)
    /\ \A i \in 1..Len(memes.all) :
         \E e \in Range(dir.entries) : e.name = memes.all[i].path
    /\ Len(memes.all) = Cardinality({ e \in Range(dir.entries) : Indexed(e) })

\* A directory named like an image, with an image below it, and a ".JPG"
\* file matched by the configured "JPG": only the file is in the index.
C19_Witness ==
  /\ loadOnce = "done" /\ loadErr = "nil"
  /\ Len(dir.entries) = 2
  /\ ~dir.entries[1].regular /\ Allowed(dir.entries[1].name)
  /\ dir.entries[1].children # <<>> /\ Allowed(dir.entries[1].children[1].name)
  /\ Ext(dir.entries[2].name) = <<".","J","P","G">>
  /\ Len(memes.all) = 1 /\ memes.all[1].path = dir.entries[2].name

\* The keywords the claim gives a file name: the name without its extension,
\* split on ",", each segment trimmed, the empty segments dropped.
NotEmpty(segment) == segment # <<>>
TrimmedSegments(name) ==
  LET segments == Split(TrimSuffix(name, Ext(name)), ",")
  IN SelectSeq([i \in 1..Len(segments) |-> TrimSpace(segments[i])], NotEmpty)

\* C20: the keywords of a loaded file are the segments between the commas of
\* its name without the extension, each trimmed of white space, the empty
\* ones left out, in their order; "foo bar, foobar ,  ,,.jpg" has the
\* keywords "foo bar" and "foobar".
C20_KeywordsTrimmedNonEmpty ==
  memes # None =>
    \A i \in 1..Len(memes.all) :
      memes.all[i].keywords = TrimmedSegments(memes.all[i].path)

\* Whether the loaded id map holds id.
Known(id) == loadErr = "nil" /\ memesById # None /\ id \in DOMAIN memesById

\* Whether the file at path can be opened now, and the bytes it holds now.
Openable(path) == \E i \in 1..Len(disk) : disk[i].name = path /\ ~disk[i].openErr
BytesNow(path) ==
  disk[CHOOSE i \in 1..Len(disk) : disk[i].name = path /\ ~disk[i].openErr].content

HashedInto(id) ==
  { e.content : e \in { f \in Range(dir.entries) : Loadable(f) /\ newFileMeme(f).id = id } }

\* C22: every successful response for an id carries the bytes that were
\* hashed into that id when the directory was loaded, so two successful
\* responses for one id carry the same bytes.
C22_ServesHashedBytes ==
  /\ \A n \in 1..Len(responses) :
       responses[n].status = 200 => responses[n].body \in HashedInto(responses[n].id)
  /\ \A m, n \in 1..Len(responses) :
       responses[m].status = 200 /\ responses[n].status = 200
         /\ responses[m].id = responses[n].id
       => responses[m].body = responses[n].body

\* Whether the load has completed: the Once is done, or Load() has returned
\* to some caller.
LoadCompleted == loadOnce = "done" \/ \E c \in Callers : ret[c] # None

\* C23: once the load has completed, no step of any caller (Load,
\* FindObject, FindMeme with its FindByKeyword, the handling of a message)
\* changes the index or the id map.
C23_IndexFrozenAfterLoad ==
  [][LoadCompleted => memes' = memes /\ memesById' = memesById]_vars

\* After the load of two memes, a FindObject found its id and a message got
\* its meme, and the index and the id map are as the load left them.
C23_Witness ==
  /\ loadOnce = "done" /\ loadErr = "nil"
  /\ Len(memes.all) = LoadableCount /\ LoadableCount = 2
  /\ DOMAIN memesById = LoadableIds
  /\ \E c, d \in Callers :
       /\ pc[c] = "done" /\ op[c].kind = "FindObject" /\ out[c].found
       /\ pc[d] = "done" /\ op[d].kind = "Message" /\ out[d] # None /\ out[d].err = "nil"

\* The keywords given to Add so far, in lower case.
AddedKeywords == UNION { { ToLower(k) : k \in Range(added[i].keywords) } : i \in 1..Len(added) }

\* C24: after any sequence of Add calls, Keywords() answers the lower-cased
\* keywords of the added memes, each once, in ascending order.
C24_KeywordsSortedOnce ==
  LET ks == Keywords(memes)
  IN /\ Range(ks) = AddedKeywords
     /\ Len(ks) = Cardinality(AddedKeywords)
     /\ \A i, j \in 1..Len(ks) : i < j => StringLess(ks[i], ks[j])

\* Memes added under "K", "help", "HeLp", "hk" and "H" list as h, help, hk, k.
C24_Witness ==
  /\ result # None
  /\ listed = << <<"h">>, <<"h","e","l","p">>, <<"h","k">>, <<"k">> >>
  /\ listed = Keywords(memes)
  /\ Len(added) = 3

HasCapturingGroup(p) == p \in { "word", "anchored", "alt", "optional", "two" }
Compiles(p) == p # "unclosed"
Usable(r) == r.parser.Regexp # None

HandlesMessage(c) == op[c] # None /\ op[c].kind = "Message"

\* C26: every goroutine that handles a message invokes the transport's send
\* zero or one time; a send happens only at the end of handleMessage, with
\* the reply text that handleMessage made, and never for an empty reply.
C26_AtMostOneReply ==
  \A c \in Callers :
    HandlesMessage(c) =>
      /\ Len(sent[c]) <= 1
      /\ sent[c] # <<>> =>
            /\ pc[c] = "done"
            /\ replyText[c] # NoReply
            /\ sent[c] = << replyText[c] >>

\* Two messages were handled concurrently: one was answered, the other
\* one ended without reply.
C26_Witness ==
  \E c, d \in Callers :
    /\ c # d
    /\ HandlesMessage(c) /\ HandlesMessage(d)
    /\ pc[c] = "done" /\ Len(sent[c]) = 1
    /\ pc[d] = "done" /\ sent[d] = <<>>

\* The ids of the items of the index.
IndexIds == IF memes = None THEN {} ELSE { memes.all[i].id : i \in 1..Len(memes.all) }

\* The ids FindObject may be asked for.
AskedIds ==
  RequestIds \cup IndexIds \cup (IF memesById = None THEN {} ELSE DOMAIN memesById)

\* C27: after a load without error FindObject reports found exactly for the
\* ids of the items of the index, and after a failed load it reports not
\* found for every id; a FindObject that returned has answered so.
C27_IdMapAgreesWithIndex ==
  loadOnce = "done" =>
    /\ loadErr = "nil" => { id \in AskedIds : FindObject(id).found } = IndexIds
    /\ loadErr # "nil" => \A id \in AskedIds : ~FindObject(id).found
    /\ \A c \in Callers :
         (op[c] # None /\ op[c].kind = "FindObject" /\ pc[c] = "done") =>
           (out[c].found <=> (loadErr = "nil" /\ op[c].id \in IndexIds))

\* A FindObject found an id of an index of two or more items.
C27_Witness ==
  /\ loadOnce = "done" /\ loadErr = "nil"
  /\ memes # None /\ Len(memes.all) >= 2
  /\ \E c \in Callers :
       /\ op[c] # None /\ op[c].kind = "FindObject" /\ pc[c] = "done"
       /\ out[c].found
       /\ op[c].id \in IndexIds

\* How often item occurs in the sequence.
Occurrences(seq, item) == Cardinality({ i \in 1..Len(seq) : seq[i] = item })

\* C28: in the answer of FindByKeyword no item occurs more often than it was
\* added to the index: an item added once occurs at most once, also when two
\* of its keywords are equal after case-folding.
C28_ItemOncePerKeyword ==
  result # None =>
    \A item \in Range(hits) : Occurrences(hits, item) <= Occurrences(added, item)

\* C29: for a text that begins with the display name or with the token
\* "<@" + id + ">" and has no white space after that prefix, ParseMention
\* answers ("", true), as for "name" and for "name:".
C29_MentionOnlyIsEmpty ==
  phase # "new" =>
    \A prefix \in {SelfName, <<"<","@">> \o SelfID \o <<">">>} :
      HasPrefix(text, prefix) =>
        LET rest == SubSeq(text, Len(prefix) + 1, Len(text))
        IN (\A i \in 1..Len(rest) : ~IsSpace(rest[i])) =>
             mention = [cleanMsg |-> <<>>, mentioned |-> TRUE]

\* The message of c does not mention the bot while ParseAllMessages is false.
Unaddressed(c) == HandlesMessage(c) /\ ~op[c].parsed.mentioned /\ ~parseAll
\* The message of c is a help request that mentions the bot.
HelpRequest(c) == HandlesMessage(c) /\ op[c].parsed.mentioned /\ op[c].parsed.help

\* FindMeme was not invoked for the message of c and the message caused no
\* Load(): the goroutine never waited for, entered or returned from the load.
NeverSearched(c) ==
  /\ pc[c] \in {"reply", "done"}
  /\ ret[c] = None
  /\ out[c] = None

\* The help text, made from the keyword pattern and not from the message.
HelpText == OnHelp(GenerateSample(pattern))

\* C30, as stated: for a message that does not mention the bot while
\* ParseAllMessages is false, and for a help request that mentions the bot,
\* FindMeme is never invoked, no load is caused, nothing is logged, and
\* nothing but the help text is sent.
C30_NoSearchNoTrace ==
  \A c \in Callers :
    (Unaddressed(c) \/ HelpRequest(c)) =>
      /\ NeverSearched(c)
      /\ logged[c] = <<>>
      /\ Range(sent[c]) \subseteq { HelpText }
      /\ Unaddressed(c) => sent[c] = <<>>

\* C30, amended: for such a message FindMeme is never invoked and no load is
\* caused; an unaddressed message leaves nothing in the log and gets no
\* reply; a help request gets nothing but the help text, and when its
\* deadline has passed before the send, replyTo logs the message instead of
\* sending the help text.
C30_NoSearchLoggedOnlyOnDeadline ==
  \A c \in Callers :
    (Unaddressed(c) \/ HelpRequest(c)) =>
      /\ NeverSearched(c)
      /\ Range(sent[c]) \subseteq { HelpText }
      /\ Unaddressed(c) => sent[c] = <<>> /\ logged[c] = <<>>
      /\ logged[c] # <<>> =>
            /\ expired[c]
            /\ sent[c] = <<>>
            /\ logged[c] = << ContextDoneLog(op[c].text) >>

\* While the load is still unused, an unaddressed message has ended in
\* silence and a help request has been answered with the help text.
C30_Witness ==
  /\ loadOnce = "idle" /\ scans = 0
  /\ \E c, d \in Callers :
       /\ Unaddressed(c) /\ pc[c] = "done" /\ sent[c] = <<>> /\ logged[c] = <<>>
       /\ HelpRequest(d) /\ pc[d] = "done" /\ sent[d] = << HelpText >>

====
